---- MODULE Spec2Model ----
(***************************************************************************)
(* Conway's Game of Life: the board (src/src/game/board.cpp,               *)
(* src/include/game/board.h) and the driver that seeds it and runs the     *)
(* draw loop (src/src/game_of_life/game_of_life.cpp, with the ncurses      *)
(* calls of src/src/graphics/screen.cpp).                                  *)
(*                                                                         *)
(* Code indices are zero-based; a TLA+ sequence is one-based, so cell      *)
(* (r, c) of the code is m[r + 1][c + 1] here.                             *)
(***************************************************************************)
EXTENDS Integers, Sequences, FiniteSets

\* Largest number of rows / columns a board is constructed with.
MaxRows == 3
MaxCols == 2
\* Largest number of seed positions a loaded init state holds, and the
\* largest coordinate a seed position holds.
MaxSeeds == 1
MaxCoord == 2
\* Largest number of loop iterations the draw loop is followed for.
MaxFrames == 3
\* Largest number of writes and Tick() calls made on a board and its copy.
MaxOps == 3
\* Largest number of rows and of columns of a board set up with a pattern,
\* and the largest number of Tick() calls it is followed for.
MaxSide == 4
MaxTicks == 4
\* Largest number of lines an init-state file holds.
MaxLines == 2
\* Largest number of cell writes made on a board whose Ticks are compared.
MaxWrites == 2

VARIABLES
  pc,          \* position of the program
  args,        \* the int arguments the constructor was called with, <<rows, cols>>
  state_,      \* GameOfLifeBoard::state_, a sequence of rows of BOOLEAN
  tmp,         \* Tick's local copy, the next generation being written
  i, j,        \* Tick's loop indices
  pre,         \* history: state_ when the running (or last) Tick began
  ret,         \* the value the last accessor call returned, <<name, value>>
  oob,         \* history: the out-of-bounds accesses (undefined behaviour) made so far
  dim,         \* main's ScreenDimension, <<height, width>>
  init_state,  \* the Position2DVec that LoadInitState returned
  seed,        \* InitializeBoard's position in init_state (0-based index of the next one)
  written,     \* history: the positions InitializeBoard wrote, in order
  frames,      \* history: per DrawBoard call, <<generation drawn, grid drawn>>
  gen,         \* history: number of Tick() calls made by the draw loop or on a pattern
  log,         \* history: the draw loop's steps, in order
  screen,      \* the terminal: "shell", "curses" after initscr(), "restored" after endwin()
  copy_,       \* state_ of a second board, made as a copy of the first
  aliased,     \* whether the second board's state_ is the first board's storage
  orig,        \* history: the grid copied when the second board was made
  ticks,       \* history: Tick() calls since the copy, <<on the first board, on the second>>
  wrote,       \* history: the boards written or moved since the copy
  ops,         \* history: number of operations made on the two boards
  pattern,     \* history: the pattern a board was set up with, <<name, r, c>>
  file,        \* the init-state file, a sequence of lines
  nread,       \* LoadInitState: number of lines std::getline has returned
  load_pos,    \* LoadInitState's local Position2D pos
  earlier      \* history: a Tick() call completed earlier, <<grid before, grid after, writes made by then>>

vars == <<pc, args, state_, tmp, i, j, pre, ret, oob, dim, init_state, seed,
          written, frames, gen, log, screen, copy_, aliased, orig, ticks,
          wrote, ops, pattern, file, nread, load_pos, earlier>>

boardVars == <<state_, tmp, i, j, pre>>
driverVars == <<dim, init_state, seed, written, frames, gen, log>>
otherVars == <<copy_, aliased, orig, ticks, wrote, ops, pattern, file, nread,
               load_pos, earlier>>

(***************************************************************************)
(* std::size_t.  A size_t holds v mod 2^64.  The values the program forms  *)
(* are an int converted to size_t, so a size_t is written as               *)
(* <<carry, low>> standing for carry * 2^64 + low, with carry = 1 exactly  *)
(* when low is negative (the conversion wrapped).                          *)
(***************************************************************************)
ToSizeT(v) == IF v < 0 THEN <<1, v>> ELSE <<0, v>>

\* Conversion of a size_t to int (the assignments of board.cpp:18-19, 24-25):
\* the value mod 2^32, read as signed.  2^64 + low with low in the int range
\* is congruent to low.
ToInt(s) == s[2]

\* Whether a size_t is a value the conversion of a negative int produced: at
\* least 2^64 - 2^31, larger than the max_size() of either vector type.
Wrapped(s) == s[1] = 1

\* a >= b for two size_t values: a value that wrapped lies above every value
\* that did not.
SizeGE(a, b) == IF a[1] # b[1] THEN a[1] > b[1] ELSE a[2] >= b[2]

\* The element a size_t below 2^63 indexes.
Offset(s) == s[2]

(***************************************************************************)
(* The grid.                                                               *)
(***************************************************************************)
\* Memory bounds of the matrix m: whether m[r][c] (zero-based) is an element.
InGrid(m, r, c) == /\ r >= 0 /\ r < Len(m)
                   /\ c >= 0 /\ c < Len(m[r + 1])

\* The read m[r][c]; an element outside the matrix is undefined behaviour,
\* recorded by the caller in oob, and reads as false here.
CellAt(m, r, c) == IF InGrid(m, r, c) THEN m[r + 1][c + 1] ELSE FALSE

\* The write m[r][c] = v through operator[] (board.h:54).
SetCell(m, r, c, v) ==
  IF InGrid(m, r, c) THEN [m EXCEPT ![r + 1][c + 1] = v] ELSE m

\* std::vector(n, value): n copies of value.
Filled(n, value) == [k \in 1..n |-> value]

\* The mutant of NewMatrix: the two dimensions exchanged.
NewMatrixTransposed(num_rows, num_cols) == Filled(num_cols, Filled(num_rows, FALSE))

\* A second mutant of NewMatrix: the rows filled with true.
NewMatrixAlive(num_rows, num_cols) == Filled(num_rows, Filled(num_cols, TRUE))

\* state_(num_rows, CellStateVec(num_cols, false)) for sizes that fit.
NewMatrix(num_rows, num_cols) == Filled(num_rows, Filled(num_cols, FALSE))

\* Rows(): state_.size().
Rows(m) == Len(m)

\* Whether Cols() is defined: state_[0] must exist.
ColsDefined(m) == Len(m) > 0

\* Cols(): state_[0].size().  With no row 0 the read is undefined behaviour;
\* callers record it in oob and the value used here is 0.
Cols(m) == IF ColsDefined(m) THEN Len(m[1]) ELSE 0

(***************************************************************************)
(* CountLiveNeighbors (board.cpp:9-33).                                    *)
(***************************************************************************)
\* The mutant of kDirections: the offset {1, 1} mistyped as a second {0, 1}.
kDirectionsRepeated ==
  << <<0, 1>>, <<1, 0>>, <<0, -1>>, <<-1, 0>>,
     <<0, 1>>, <<1, -1>>, <<-1, 1>>, <<-1, -1>> >>

\* A second mutant of kDirections: the offset {0, 0} listed as well, so that a
\* cell is counted among its own neighbours.
kDirectionsWithSelf ==
  << <<0, 0>>, <<0, 1>>, <<1, 0>>, <<0, -1>>, <<-1, 0>>,
     <<1, 1>>, <<1, -1>>, <<-1, 1>>, <<-1, -1>> >>

\* The eight offsets, in the order of the source.
kDirections ==
  << <<0, 1>>, <<1, 0>>, <<0, -1>>, <<-1, 0>>,
     <<1, 1>>, <<1, -1>>, <<-1, 1>>, <<-1, -1>> >>

\* neighbor_row = row + direction.first: the sum is formed in size_t and
\* converted to int.
NeighborIndex(index, offset) == ToInt(ToSizeT(index + offset))

\* The mutant of InsideLimits: the lower bound on the row is not tested.
InsideLimitsNoLowerRow(neighbor_row, neighbor_col, kRowLimit, kColLimit) ==
  /\ neighbor_row < kRowLimit
  /\ neighbor_col >= 0 /\ neighbor_col < kColLimit

\* The four comparisons that guard the read of state_ (board.cpp:26-27).
InsideLimits(neighbor_row, neighbor_col, kRowLimit, kColLimit) ==
  /\ neighbor_row >= 0 /\ neighbor_row < kRowLimit
  /\ neighbor_col >= 0 /\ neighbor_col < kColLimit

\* The mutant of CountsDirection: the test of the neighbour negated, the dead
\* neighbours counted.
CountsDirectionDead(m, row, col, k) ==
  LET neighbor_row == NeighborIndex(row, kDirections[k][1])
      neighbor_col == NeighborIndex(col, kDirections[k][2])
  IN  /\ InsideLimits(neighbor_row, neighbor_col,
                      ToInt(ToSizeT(Rows(m))), ToInt(ToSizeT(Cols(m))))
      /\ ~CellAt(m, neighbor_row, neighbor_col)

\* Whether the k-th direction adds one to num_live_neighbors.
CountsDirection(m, row, col, k) ==
  LET neighbor_row == NeighborIndex(row, kDirections[k][1])
      neighbor_col == NeighborIndex(col, kDirections[k][2])
  IN  /\ InsideLimits(neighbor_row, neighbor_col,
                      ToInt(ToSizeT(Rows(m))), ToInt(ToSizeT(Cols(m))))
      /\ CellAt(m, neighbor_row, neighbor_col)

\* The loop over kDirections from its k-th element on.
RECURSIVE CountFrom(_, _, _, _)
CountFrom(m, row, col, k) ==
  IF k > Len(kDirections) THEN 0
  ELSE (IF CountsDirection(m, row, col, k) THEN 1 ELSE 0)
       + CountFrom(m, row, col, k + 1)

\* Line 10: int num_live_neighbors = 0; and the loop of lines 20-30.
CountLiveNeighbors(m, row, col) == CountFrom(m, row, col, 1)

\* Whether a call of CountLiveNeighbors reads an element outside the matrix:
\* a direction passes the comparisons and state_[neighbor_row][neighbor_col]
\* does not exist.
NeighborReadOutside(m, row, col) ==
  \E k \in 1..Len(kDirections) :
    LET neighbor_row == NeighborIndex(row, kDirections[k][1])
        neighbor_col == NeighborIndex(col, kDirections[k][2])
    IN  /\ InsideLimits(neighbor_row, neighbor_col,
                        ToInt(ToSizeT(Rows(m))), ToInt(ToSizeT(Cols(m))))
        /\ ~InGrid(m, neighbor_row, neighbor_col)

(***************************************************************************)
(* Tick (board.cpp:38-63).                                                 *)
(***************************************************************************)
\* The mutant of TickCell: the rules of an in-place update, where the count
\* is taken from the buffer being written.
TickCellInPlace(m, t, row, col) ==
  LET num_live_neighbors == CountLiveNeighbors(t, row, col)
  IN  IF CellAt(t, row, col)
        THEN IF num_live_neighbors < 2 THEN SetCell(t, row, col, FALSE)
             ELSE IF num_live_neighbors > 3 THEN SetCell(t, row, col, FALSE)
             ELSE t
        ELSE IF num_live_neighbors = 3 THEN SetCell(t, row, col, TRUE)
             ELSE t

\* The mutant of TickCell: overpopulation tested as more than 2 neighbours.
TickCellOverTwo(m, t, row, col) ==
  LET num_live_neighbors == CountLiveNeighbors(m, row, col)
  IN  IF CellAt(m, row, col)
        THEN IF num_live_neighbors < 2 THEN SetCell(t, row, col, FALSE)
             ELSE IF num_live_neighbors > 2 THEN SetCell(t, row, col, FALSE)
             ELSE t
        ELSE IF num_live_neighbors = 3 THEN SetCell(t, row, col, TRUE)
             ELSE t

\* The body of the inner loop for cell (row, col): m is state_, t is tmp;
\* the result is tmp after the body.
TickCell(m, t, row, col) ==
  LET num_live_neighbors == CountLiveNeighbors(m, row, col)
  IN  IF CellAt(m, row, col)
        THEN IF num_live_neighbors < 2 THEN SetCell(t, row, col, FALSE)
             ELSE IF num_live_neighbors > 3 THEN SetCell(t, row, col, FALSE)
             ELSE t
        ELSE IF num_live_neighbors = 3 THEN SetCell(t, row, col, TRUE)
             ELSE t

\* The two loops run to the end from cell (row, col) on, Cols() being defined
\* whenever the inner loop is entered.
RECURSIVE TickFrom(_, _, _, _)
TickFrom(m, t, row, col) ==
  IF row >= Rows(m) THEN t
  ELSE IF col >= Cols(m) THEN TickFrom(m, t, row + 1, 0)
  ELSE TickFrom(m, TickCell(m, t, row, col), row, col + 1)

\* The mutant of TickResult: tmp starts as an all-dead grid of the same
\* dimensions, not as a copy of state_.
TickResultBlankTmp(m) ==
  TickFrom(m, [r \in 1..Len(m) |-> [c \in 1..Len(m[r]) |-> FALSE]], 0, 0)

\* The state Tick() leaves in state_: tmp starts as a copy of state_ and is
\* moved into state_ after the loops.
TickResult(m) == TickFrom(m, m, 0, 0)

(***************************************************************************)
(* The constructor (board.cpp:35-36), called with int arguments that are   *)
(* converted to its std::size_t parameters at the call.                    *)
(*                                                                         *)
(* CellStateVec(num_cols, false) is built first, then state_ from          *)
(* num_rows copies of it.  The standard library decides what a size        *)
(* beyond max_size() does: the outer std::vector throws std::length_error  *)
(* (or std::bad_alloc); std::vector<bool> either throws or, when its word  *)
(* count overflows, yields an object with no storage, whose copy is        *)
(* undefined behaviour.                                                    *)
(***************************************************************************)
CtorOutcome(num_rows, num_cols, inner) ==
  IF inner = "throws" THEN [result |-> "thrown", board |-> << >>]
  ELSE IF Wrapped(num_rows) THEN [result |-> "thrown", board |-> << >>]
  ELSE IF inner = "broken"
    THEN IF ToInt(num_rows) = 0
           THEN [result |-> "ok", board |-> << >>]
           ELSE [result |-> "crashed", board |-> << >>]
  ELSE [result |-> "ok", board |-> NewMatrix(ToInt(num_rows), ToInt(num_cols))]

\* The outcomes of GameOfLifeBoard(num_rows, num_cols), both size_t.
GameOfLifeBoard(num_rows, num_cols) ==
  { CtorOutcome(num_rows, num_cols, inner) :
      inner \in (IF Wrapped(num_cols) THEN {"throws", "broken"} ELSE {"vector"}) }

\* Where the program is after a constructor outcome.
AfterCtor(result, next) ==
  IF result = "ok" THEN next ELSE result

(***************************************************************************)
(* The board used through its interface: construction, the accessors,      *)
(* in-range writes through operator[], and Tick() followed loop test by    *)
(* loop test.                                                              *)
(***************************************************************************)
RowArgs == {-1} \cup (0..MaxRows)
ColArgs == {-1} \cup (0..MaxCols)

\* What Cols() can return when state_[0] does not exist.
GarbageSizes == 0..MaxCols

NoRet == <<"none", 0>>

InitBase ==
  /\ args = <<0, 0>>
  /\ state_ = << >>
  /\ tmp = << >>
  /\ i = 0
  /\ j = 0
  /\ pre = << >>
  /\ ret = NoRet
  /\ oob = {}
  /\ dim = <<0, 0>>
  /\ init_state = << >>
  /\ seed = 0
  /\ written = << >>
  /\ frames = << >>
  /\ gen = 0
  /\ log = << >>
  /\ screen = "shell"
  /\ copy_ = << >>
  /\ aliased = FALSE
  /\ orig = << >>
  /\ ticks = <<0, 0>>
  /\ wrote = {}
  /\ ops = 0
  /\ pattern = <<"none", 0, 0>>
  /\ file = << >>
  /\ nread = 0
  /\ load_pos = [x |-> ToSizeT(0), y |-> ToSizeT(0)]
  /\ earlier = << >>

Init == pc = "start" /\ InitBase

\* GameOfLifeBoard board(h, w);
Construct ==
  /\ pc = "start"
  /\ \E h \in RowArgs, w \in ColArgs :
       \E o \in GameOfLifeBoard(ToSizeT(h), ToSizeT(w)) :
         /\ args' = <<h, w>>
         /\ state_' = o.board
         /\ pc' = AfterCtor(o.result, "idle")
  /\ UNCHANGED <<tmp, i, j, pre, ret, oob>>
  /\ UNCHANGED driverVars
  /\ UNCHANGED otherVars
  /\ UNCHANGED screen

\* board[r][c] = v, for a position the caller has checked to be in range.
WriteCell ==
  /\ pc = "idle"
  /\ \E r \in 0..(Rows(state_) - 1) :
       \E c \in 0..(Len(state_[r + 1]) - 1) :
         \E v \in BOOLEAN :
           state_' = SetCell(state_, r, c, v)
  /\ pre' = << >>
  /\ ret' = NoRet
  /\ UNCHANGED <<pc, args, tmp, i, j, oob>>
  /\ UNCHANGED driverVars
  /\ UNCHANGED otherVars
  /\ UNCHANGED screen

\* board.Rows()
CallRows ==
  /\ pc = "idle"
  /\ ret' = <<"Rows", Rows(state_)>>
  /\ pre' = << >>
  /\ UNCHANGED <<pc, args, state_, tmp, i, j, oob>>
  /\ UNCHANGED driverVars
  /\ UNCHANGED otherVars
  /\ UNCHANGED screen

\* board.Cols(): state_[0].size().  Without a row 0 the call is undefined
\* behaviour: it faults, or returns whatever the read finds.
CallCols ==
  /\ pc = "idle"
  /\ pre' = << >>
  /\ IF ColsDefined(state_)
       THEN /\ ret' = <<"Cols", Cols(state_)>>
            /\ UNCHANGED <<pc, oob>>
       ELSE /\ oob' = oob \cup {"Cols"}
            /\ \E faults \in BOOLEAN, garbage \in GarbageSizes :
                 IF faults
                   THEN pc' = "crashed" /\ ret' = NoRet
                   ELSE pc' = pc /\ ret' = <<"Cols", garbage>>
  /\ UNCHANGED <<args, state_, tmp, i, j>>
  /\ UNCHANGED driverVars
  /\ UNCHANGED otherVars
  /\ UNCHANGED screen

\* Tick(), line 42: CellStateMatrix tmp = state_;
TickCopy ==
  /\ pc = "idle"
  /\ tmp' = state_
  /\ pre' = state_
  /\ i' = 0
  /\ j' = 0
  /\ ret' = NoRet
  /\ pc' = "tick_outer"
  /\ UNCHANGED <<args, state_, oob>>
  /\ UNCHANGED driverVars
  /\ UNCHANGED otherVars
  /\ UNCHANGED screen

\* Tick(), line 45: the test i < Rows() of the outer loop, and ++i.
TickOuterLoop ==
  /\ pc = "tick_outer"
  /\ IF i < Rows(state_)
       THEN j' = 0 /\ pc' = "tick_inner"
       ELSE j' = j /\ pc' = "tick_move"
  /\ UNCHANGED <<args, state_, tmp, i, pre, ret, oob>>
  /\ UNCHANGED driverVars
  /\ UNCHANGED otherVars
  /\ UNCHANGED screen

\* The mutant of TickInnerLoop: num_live_neighbors is declared without its
\* initialiser, so the count starts from whatever the local holds.
TickInnerLoopUninitialised ==
  /\ pc = "tick_inner"
  /\ IF j < Cols(state_)
       THEN /\ \E garbage \in 0..3 :
                 LET num_live_neighbors == garbage + CountLiveNeighbors(state_, i, j)
                 IN  tmp' = IF CellAt(state_, i, j)
                              THEN IF num_live_neighbors < 2 \/ num_live_neighbors > 3
                                     THEN SetCell(tmp, i, j, FALSE) ELSE tmp
                              ELSE IF num_live_neighbors = 3
                                     THEN SetCell(tmp, i, j, TRUE) ELSE tmp
            /\ j' = j + 1
            /\ UNCHANGED <<pc, i, oob>>
       ELSE /\ i' = i + 1
            /\ pc' = "tick_outer"
            /\ UNCHANGED <<tmp, j, oob>>
  /\ UNCHANGED <<args, state_, pre, ret, screen>>
  /\ UNCHANGED driverVars
  /\ UNCHANGED otherVars

\* Tick(), lines 46-60: the test j < Cols() of the inner loop, which reads
\* state_[0], and the loop body for cell (i, j).
TickInnerLoop ==
  /\ pc = "tick_inner"
  /\ IF j < Cols(state_)
       THEN /\ tmp' = TickCell(state_, tmp, i, j)
            /\ j' = j + 1
            /\ oob' = oob
                 \cup (IF ColsDefined(state_) THEN {} ELSE {"Tick.Cols"})
                 \cup (IF NeighborReadOutside(state_, i, j) THEN {"Tick.read"} ELSE {})
            /\ UNCHANGED <<pc, i>>
       ELSE /\ i' = i + 1
            /\ pc' = "tick_outer"
            /\ oob' = oob \cup (IF ColsDefined(state_) THEN {} ELSE {"Tick.Cols"})
            /\ UNCHANGED <<tmp, j>>
  /\ UNCHANGED <<args, state_, pre, ret>>
  /\ UNCHANGED driverVars
  /\ UNCHANGED otherVars
  /\ UNCHANGED screen

\* Tick(), line 62: state_ = std::move(tmp); and the return.
TickMove ==
  /\ pc = "tick_move"
  /\ state_' = tmp
  /\ tmp' = << >>
  /\ i' = 0
  /\ j' = 0
  /\ ret' = <<"Tick", 0>>
  /\ pc' = "idle"
  /\ UNCHANGED <<args, pre, oob>>
  /\ UNCHANGED driverVars
  /\ UNCHANGED otherVars
  /\ UNCHANGED screen

Next ==
  \/ Construct
  \/ WriteCell
  \/ CallRows
  \/ CallCols
  \/ TickCopy
  \/ TickOuterLoop
  \/ TickInnerLoop
  \/ TickMove

Spec == Init /\ [][Next]_vars

(***************************************************************************)
(* Reference definitions the claims are stated with.                       *)
(***************************************************************************)
\* The constructor was called with dimensions that are valid (non-negative).
ValidArgs == args[1] >= 0 /\ args[2] >= 0

InTick == pc \in {"tick_outer", "tick_inner", "tick_move"}

\* The cells of a rows x cols grid.
Grid(rows, cols) == (0..(rows - 1)) \X (0..(cols - 1))

\* The number of live cells among the 8 positions around (r, c) that lie in
\* [0, rows) x [0, cols).
LiveAround(m, rows, cols, r, c) ==
  Cardinality({ p \in ((r - 1)..(r + 1)) \X ((c - 1)..(c + 1)) :
                  /\ p # <<r, c>>
                  /\ p \in Grid(rows, cols)
                  /\ m[p[1] + 1][p[2] + 1] })

\* Conway's rule for cell (r, c) of m.
ConwayAlive(m, rows, cols, r, c) ==
  LET n == LiveAround(m, rows, cols, r, c)
  IN  IF m[r + 1][c + 1] THEN n \in {2, 3} ELSE n = 3

\* The grid has exactly rows rows of exactly cols entries.
HasShape(m, rows, cols) ==
  /\ Len(m) = rows
  /\ \A r \in 1..Len(m) : Len(m[r]) = cols

\* Cell (r, c) has been decided by the running Tick.
Decided(r, c) ==
  \/ pc = "tick_move"
  \/ r < i
  \/ pc = "tick_inner" /\ r = i /\ c < j

(***************************************************************************)
(* C1.  After one Tick() a cell is alive exactly when, before the Tick, it *)
(* was alive with 2 or 3 live neighbours or dead with exactly 3; every     *)
(* other cell is dead.                                                     *)
(***************************************************************************)
C1_TickIsConway ==
  (pc = "idle" /\ ret[1] = "Tick" /\ ValidArgs) =>
     /\ HasShape(state_, args[1], args[2])
     /\ \A p \in Grid(args[1], args[2]) :
          state_[p[1] + 1][p[2] + 1]
            = ConwayAlive(pre, args[1], args[2], p[1], p[2])

\* A Tick has returned in which a cell was born, a cell survived and a cell
\* died of overpopulation.
C1_Witness ==
  /\ pc = "idle" /\ ret[1] = "Tick" /\ ValidArgs
  /\ \E p \in Grid(args[1], args[2]) :
       ~pre[p[1] + 1][p[2] + 1] /\ state_[p[1] + 1][p[2] + 1]
  /\ \E p \in Grid(args[1], args[2]) :
       pre[p[1] + 1][p[2] + 1] /\ state_[p[1] + 1][p[2] + 1]
  /\ \E p \in Grid(args[1], args[2]) :
       /\ pre[p[1] + 1][p[2] + 1] /\ ~state_[p[1] + 1][p[2] + 1]
       /\ LiveAround(pre, args[1], args[2], p[1], p[2]) > 3

(***************************************************************************)
(* C2.  While a Tick() runs, the grid the neighbour counts are read from   *)
(* is the pre-tick grid, unchanged; the results are written to the         *)
(* separate buffer only, which holds the next generation for the cells     *)
(* already decided and the pre-tick value for the others; the board's      *)
(* state is the pre-tick grid until it becomes the complete next           *)
(* generation in the step that ends the Tick.                              *)
(***************************************************************************)
C2_TickReadsSnapshot ==
  (InTick /\ ValidArgs) =>
     /\ state_ = pre
     /\ HasShape(tmp, args[1], args[2])
     /\ \A p \in Grid(args[1], args[2]) :
          tmp[p[1] + 1][p[2] + 1]
            = IF Decided(p[1], p[2])
                THEN ConwayAlive(pre, args[1], args[2], p[1], p[2])
                ELSE pre[p[1] + 1][p[2] + 1]

\* A Tick is about to decide a cell whose neighbour count in the buffer
\* already differs from its count in the pre-tick grid.
C2_Witness ==
  /\ pc = "tick_inner" /\ ValidArgs
  /\ j < Cols(state_)
  /\ tmp # state_
  /\ CountLiveNeighbors(tmp, i, j) # CountLiveNeighbors(state_, i, j)
  /\ TickCellInPlace(state_, tmp, i, j) # TickCell(state_, tmp, i, j)

(***************************************************************************)
(* C3.  For every cell of the grid, the neighbour count is the number of   *)
(* live cells among the 8 surrounding positions that lie inside the grid;  *)
(* positions outside count 0 and nothing wraps around.  A lone live cell   *)
(* at (0, 0) has count 0.                                                  *)
(***************************************************************************)
C3_NeighborCount ==
  (pc = "idle" /\ ValidArgs) =>
     /\ \A p \in Grid(args[1], args[2]) :
          /\ CountLiveNeighbors(state_, p[1], p[2])
               = LiveAround(state_, args[1], args[2], p[1], p[2])
          /\ ~NeighborReadOutside(state_, p[1], p[2])
     /\ (/\ Grid(args[1], args[2]) # {}
         /\ \A p \in Grid(args[1], args[2]) :
              state_[p[1] + 1][p[2] + 1] <=> (p = <<0, 0>>))
        => CountLiveNeighbors(state_, 0, 0) = 0

\* The largest board with exactly the cells of its last row alive: the cells
\* of row 0 have count 0, where wrapping around to the opposite edge would
\* count the last row.
C3_Witness ==
  /\ pc = "idle" /\ args = <<MaxRows, MaxCols>>
  /\ \A p \in Grid(MaxRows, MaxCols) :
       state_[p[1] + 1][p[2] + 1] <=> (p[1] = MaxRows - 1)
  /\ \A c \in 0..(MaxCols - 1) : CountLiveNeighbors(state_, 0, c) = 0
  /\ CountLiveNeighbors(state_, MaxRows - 1, 0) = 1

(***************************************************************************)
(* C4.  Tick() is total over every validly constructed board, the ones     *)
(* with no rows or no columns included: it reads no row and no cell        *)
(* outside the grid, every step of it has a next step until it returns,    *)
(* its loop indices stay within the dimensions, and on a 0 x 0 board it    *)
(* leaves the board as it was.                                             *)
(***************************************************************************)
C4_TickTotal ==
  ValidArgs =>
     /\ "Tick.read" \notin oob
     /\ "Tick.Cols" \notin oob
     /\ InTick =>
          /\ ENABLED (TickOuterLoop \/ TickInnerLoop \/ TickMove)
          /\ i <= args[1]
          /\ j <= args[2]
          /\ pc = "tick_inner" => ColsDefined(state_)
     /\ (pc = "idle" /\ ret[1] = "Tick" /\ args = <<0, 0>>) =>
          state_ = pre /\ state_ = << >>

\* Tick() has returned on a board with no rows and a positive column count.
C4_Witness ==
  /\ pc = "idle" /\ ret[1] = "Tick"
  /\ args[1] = 0 /\ args[2] > 0
  /\ oob = {}

(***************************************************************************)
(* C5.  On a board constructed as Board(rows, cols) with rows >= 0 and     *)
(* cols >= 0, Rows() returns rows and Cols() returns cols, also when       *)
(* rows = 0.                                                               *)
(***************************************************************************)
C5_AccessorsReturnDimensions ==
  (ValidArgs /\ pc # "start") =>
     /\ "Cols" \notin oob
     /\ ret[1] = "Rows" => ret[2] = args[1]
     /\ ret[1] = "Cols" => ret[2] = args[2]

(***************************************************************************)
(* C6.  After construction with (rows, cols) and any sequence of Tick()    *)
(* calls and in-range cell writes, the grid has exactly rows rows and      *)
(* every row has exactly cols entries.                                     *)
(***************************************************************************)
C6_ShapeInvariant ==
  (ValidArgs /\ pc \notin {"start", "thrown"}) =>
     HasShape(state_, args[1], args[2])

\* A Tick() has returned on a non-square board, on a grid that writes and
\* the Tick have changed.
C6_Witness ==
  /\ pc = "idle" /\ ret[1] = "Tick"
  /\ args[1] > 0 /\ args[2] > 0 /\ args[1] # args[2]
  /\ state_ # pre
  /\ state_ # NewMatrix(args[1], args[2])

(***************************************************************************)
(* C7.  Constructing a board with a negative dimension fails at            *)
(* construction with a reported error (an exception): no board comes out   *)
(* of a negative rows or cols value.                                       *)
(***************************************************************************)
C7_NegativeDimensionFails ==
  (pc # "start" /\ ~ValidArgs) => pc = "thrown"

(***************************************************************************)
(* The driver: main (game_of_life.cpp:78-136) from InitScreen() on, with   *)
(* InitializeBoard (55-63) and RunDrawLoop (65-76).                        *)
(***************************************************************************)
\* The heights and widths getmaxyx can report; the board gets height - 1 rows.
ScreenHeights == 0..(MaxRows + 1)
ScreenWidths == 0..MaxCols

\* Position2D values, and the init states LoadInitState can return: every
\* list of up to MaxSeeds positions, and a full first column.  A coordinate
\* is a std::size_t: a value up to MaxCoord, or 2^64 - 1 (read from "-1").
Coordinates == { ToSizeT(v) : v \in (-1)..MaxCoord }

Positions == [x : Coordinates, y : Coordinates]

RECURSIVE SeqsUpTo(_, _)
SeqsUpTo(S, n) ==
  IF n = 0 THEN { << >> }
  ELSE LET shorter == SeqsUpTo(S, n - 1)
       IN  shorter \cup { Append(q, e) : q \in shorter, e \in S }

ColumnSeeds == [k \in 1..MaxRows |-> [x |-> ToSizeT(0), y |-> ToSizeT(k - 1)]]

SeedLists == SeqsUpTo(Positions, MaxSeeds) \cup {ColumnSeeds}

InitMain == pc = "main" /\ InitBase

\* Line 111: ScreenDimension dim = InitScreen();
MainInitScreen ==
  /\ pc = "main"
  /\ \E height \in ScreenHeights, width \in ScreenWidths :
       dim' = <<height, width>>
  /\ screen' = "curses"
  /\ pc' = "screen"
  /\ UNCHANGED <<args, ret, oob, init_state, seed, written, frames, gen, log>>
  /\ UNCHANGED boardVars
  /\ UNCHANGED otherVars

\* Line 116: GameOfLifeBoard board(dim.height - 1, dim.width);
MainConstruct ==
  /\ pc = "screen"
  /\ \E o \in GameOfLifeBoard(ToSizeT(dim[1] - 1), ToSizeT(dim[2])) :
       /\ state_' = o.board
       /\ pc' = AfterCtor(o.result, "load")
  /\ args' = <<dim[1] - 1, dim[2]>>
  /\ UNCHANGED <<tmp, i, j, pre, ret, oob>>
  /\ UNCHANGED driverVars
  /\ UNCHANGED otherVars
  /\ UNCHANGED screen

\* Line 117, the argument LoadInitState(argv[optind]): the file cannot be
\* opened and std::invalid_argument is thrown, or its positions are returned.
MainLoadInitState ==
  /\ pc = "load"
  /\ \/ /\ pc' = "thrown"
        /\ UNCHANGED <<init_state, seed>>
     \/ /\ init_state' \in SeedLists
        /\ seed' = 0
        /\ pc' = "seed"
  /\ UNCHANGED <<args, ret, oob, dim, written, frames, gen, log>>
  /\ UNCHANGED boardVars
  /\ UNCHANGED otherVars
  /\ UNCHANGED screen

\* Line 58: (pos.x >= board.Cols()) || (pos.y >= board.Rows()), compared as
\* std::size_t.
OutsideBoard(pos, cols, rows) ==
  SizeGE(pos.x, ToSizeT(cols)) \/ SizeGE(pos.y, ToSizeT(rows))

\* InitializeBoard, one pass of the loop of lines 57-62 (or its end, after
\* which main enables the input delay and enters RunDrawLoop).  Cols() is
\* called first; on a board without rows that is undefined behaviour: the
\* call faults or returns whatever it reads.
InitializeBoardStep ==
  /\ pc = "seed"
  /\ IF seed >= Len(init_state)
       THEN /\ pc' = "quit_check"
            /\ UNCHANGED <<state_, seed, written, oob>>
       ELSE \E faults \in BOOLEAN, garbage \in GarbageSizes :
              LET pos == init_state[seed + 1]
                  cols == IF ColsDefined(state_) THEN Cols(state_) ELSE garbage
              IN  /\ oob' = oob
                       \cup (IF ColsDefined(state_) THEN {} ELSE {"Seed.Cols"})
                       \cup (IF /\ ~OutsideBoard(pos, cols, Rows(state_))
                                /\ ~InGrid(state_, Offset(pos.y), Offset(pos.x))
                               THEN {"Seed.write"} ELSE {})
                  /\ IF ~ColsDefined(state_) /\ faults
                       THEN /\ pc' = "crashed"
                            /\ UNCHANGED <<state_, seed, written>>
                     ELSE IF OutsideBoard(pos, cols, Rows(state_))
                       THEN /\ pc' = "thrown"
                            /\ UNCHANGED <<state_, seed, written>>
                     ELSE /\ state_' = SetCell(state_, Offset(pos.y), Offset(pos.x), TRUE)
                          /\ written' = Append(written, pos)
                          /\ seed' = seed + 1
                          /\ pc' = pc
  /\ UNCHANGED <<args, tmp, i, j, pre, ret, dim, init_state, frames, gen, log>>
  /\ UNCHANGED otherVars
  /\ UNCHANGED screen

\* DrawBoard (screen.cpp:35-44): the cells a sprite is drawn for.
DrawBoard(m) ==
  { p \in Grid(Rows(m), Cols(m)) : CellAt(m, p[1], p[2]) }

\* Line 67: while (!Quit()).  Quit() is whether the key read is 'q'.  The
\* loop is followed for at most MaxFrames iterations.
LoopQuit ==
  /\ pc = "quit_check"
  /\ \E quit \in BOOLEAN :
       /\ quit \/ Len(frames) < MaxFrames
       /\ log' = Append(log, IF quit THEN "quit:yes" ELSE "quit:no")
       /\ pc' = IF quit THEN "cleanup" ELSE "draw"
  /\ UNCHANGED <<args, ret, oob, dim, init_state, seed, written, frames, gen>>
  /\ UNCHANGED boardVars
  /\ UNCHANGED otherVars
  /\ UNCHANGED screen

\* The mutant of LoopDraw: the loop goes from drawing to sleeping, the Tick()
\* call left out.
LoopDrawSkipsTick ==
  /\ pc = "draw"
  /\ frames' = Append(frames, <<gen, DrawBoard(state_)>>)
  /\ log' = Append(log, "draw")
  /\ pc' = "sleep"
  /\ UNCHANGED <<args, ret, oob, dim, init_state, seed, written, gen>>
  /\ UNCHANGED boardVars
  /\ UNCHANGED otherVars
  /\ UNCHANGED screen

\* A second mutant of LoopDraw: the render pass clears the board's cells
\* along with the screen.
LoopDrawClearsBoard ==
  /\ pc = "draw"
  /\ frames' = Append(frames, <<gen, DrawBoard(state_)>>)
  /\ log' = Append(log, "draw")
  /\ pc' = "tick"
  /\ state_' = [r \in 1..Len(state_) |-> [c \in 1..Len(state_[r]) |-> FALSE]]
  /\ UNCHANGED <<args, tmp, i, j, pre, ret, oob, dim, init_state, seed,
                 written, gen, screen>>
  /\ UNCHANGED otherVars

\* Lines 68-70: Clear(); DrawBoard(board); DrawInstructions(dim);
LoopDraw ==
  /\ pc = "draw"
  /\ frames' = Append(frames, <<gen, DrawBoard(state_)>>)
  /\ log' = Append(log, "draw")
  /\ pc' = "tick"
  /\ UNCHANGED <<args, ret, oob, dim, init_state, seed, written, gen>>
  /\ UNCHANGED boardVars
  /\ UNCHANGED otherVars
  /\ UNCHANGED screen

\* The mutant of LoopTick: Tick() called twice in one iteration.
LoopTickTwice ==
  /\ pc = "tick"
  /\ state_' = TickResult(TickResult(state_))
  /\ gen' = gen + 2
  /\ log' = Append(log, "tick")
  /\ pc' = "sleep"
  /\ UNCHANGED <<args, tmp, i, j, pre, ret, oob, dim, init_state, seed,
                 written, frames>>
  /\ UNCHANGED otherVars
  /\ UNCHANGED screen

\* Line 72: board.Tick();
LoopTick ==
  /\ pc = "tick"
  /\ state_' = TickResult(state_)
  /\ gen' = gen + 1
  /\ log' = Append(log, "tick")
  /\ pc' = "sleep"
  /\ UNCHANGED <<args, tmp, i, j, pre, ret, oob, dim, init_state, seed,
                 written, frames>>
  /\ UNCHANGED otherVars
  /\ UNCHANGED screen

\* Line 74: std::this_thread::sleep_for(...), then back to the loop test.
LoopSleep ==
  /\ pc = "sleep"
  /\ log' = Append(log, "sleep")
  /\ pc' = "quit_check"
  /\ UNCHANGED <<args, ret, oob, dim, init_state, seed, written, frames, gen>>
  /\ UNCHANGED boardVars
  /\ UNCHANGED otherVars
  /\ UNCHANGED screen

\* Lines 129-135: DisableInputDelay(); TerminateScreen(); std::exit(EXIT_SUCCESS);
MainCleanup ==
  /\ pc = "cleanup"
  /\ screen' = "restored"
  /\ pc' = "exit_success"
  /\ UNCHANGED <<args, ret, oob>>
  /\ UNCHANGED boardVars
  /\ UNCHANGED driverVars
  /\ UNCHANGED otherVars

\* Lines 131-133: catch (const std::exception &e) { PrintErrorAndExit(e.what()); }
MainCatch ==
  /\ pc = "thrown"
  /\ pc' = "exit_failure"
  /\ UNCHANGED <<args, ret, oob>>
  /\ UNCHANGED boardVars
  /\ UNCHANGED driverVars
  /\ UNCHANGED otherVars
  /\ UNCHANGED screen

NextMain ==
  \/ MainInitScreen
  \/ MainConstruct
  \/ MainLoadInitState
  \/ InitializeBoardStep
  \/ LoopQuit
  \/ LoopDraw
  \/ LoopTick
  \/ LoopSleep
  \/ MainCleanup
  \/ MainCatch

SpecMain == InitMain /\ [][NextMain]_vars

(***************************************************************************)
(* Reference definitions for the driver's claims.                          *)
(***************************************************************************)
\* RunDrawLoop has been entered.
InLoop ==
  pc \in {"quit_check", "draw", "tick", "sleep", "cleanup", "exit_success"}

\* The grid of the constructed dimensions with exactly the positions that
\* seeding wrote alive.
SeededGrid ==
  [r \in 1..args[1] |->
    [c \in 1..args[2] |->
      \E k \in 1..Len(written) :
        written[k] = [x |-> ToSizeT(c - 1), y |-> ToSizeT(r - 1)]]]

\* Generation n of the grid m.
RECURSIVE Generation(_, _)
Generation(m, n) == IF n = 0 THEN m ELSE Generation(TickResult(m), n - 1)

\* The step the k-th entry of the loop's log must be.
LoopStepAt(k) ==
  CASE k % 4 = 1 -> {"quit:no", "quit:yes"}
    [] k % 4 = 2 -> {"draw"}
    [] k % 4 = 3 -> {"tick"}
    [] OTHER -> {"sleep"}

(***************************************************************************)
(* C8.  Seeding never writes outside the grid: every position that         *)
(* InitializeBoard processes is checked against [0, rows) x [0, cols)      *)
(* before the write, a position outside raises the error instead of being  *)
(* written, on every board size, 0 rows and 0 columns included: no access  *)
(* outside the grid is made, the program does not fault, and the positions *)
(* written are the processed ones, all inside the grid.                    *)
(***************************************************************************)
C8_SeedsCheckedBeforeWrite ==
  /\ "Seed.write" \notin oob
  /\ "Seed.Cols" \notin oob
  /\ pc # "crashed"
  /\ \A k \in 1..Len(written) :
       /\ ~Wrapped(written[k].y) /\ ~Wrapped(written[k].x)
       /\ <<Offset(written[k].y), Offset(written[k].x)>> \in Grid(args[1], args[2])
  /\ (pc = "seed" \/ InLoop) => written = SubSeq(init_state, 1, seed)

(***************************************************************************)
(* C9.  In the draw loop Tick() is called exactly once per iteration and   *)
(* only after that iteration has drawn: the n-th frame drawn shows         *)
(* generation n - 1 of the seeded board, no generation is skipped or       *)
(* drawn twice, and the board is at the generation counted by the Ticks.   *)
(***************************************************************************)
C9_FrameShowsGeneration ==
  InLoop =>
     /\ \A n \in 1..Len(frames) :
          /\ frames[n][1] = n - 1
          /\ frames[n][2] = DrawBoard(Generation(SeededGrid, n - 1))
     /\ gen = IF pc = "tick" THEN Len(frames) - 1 ELSE Len(frames)
     /\ state_ = Generation(SeededGrid, gen)

\* MaxFrames frames have been drawn, the first of a non-empty seeded board,
\* each differing from the one before it.
C9_Witness ==
  /\ InLoop
  /\ Len(frames) = MaxFrames
  /\ frames[1][2] # {}
  /\ \A n \in 1..(Len(frames) - 1) : frames[n][2] # frames[n + 1][2]

(***************************************************************************)
(* C10 as claimed.  Each iteration runs draw, Tick, sleep, quit check, so  *)
(* the seeded state is drawn before the first quit check is made.          *)
(***************************************************************************)
C10_DrawnBeforeFirstQuitCheck ==
  \A k \in 1..Len(log) :
    log[k] \in {"quit:no", "quit:yes"} =>
      \E d \in 1..(k - 1) : log[d] = "draw"

(***************************************************************************)
(* C10 as amended.  After seeding, each iteration of the loop runs quit    *)
(* check, draw, Tick, sleep, in that order: a quit check follows the sleep *)
(* of the iteration before it, the first quit check is made before         *)
(* anything is drawn, and an answer of yes ends the loop at once, so the   *)
(* seeded state is drawn only when the first quit check answers no.        *)
(***************************************************************************)
C10_LoopOrder ==
  /\ \A k \in 1..Len(log) :
       /\ log[k] \in LoopStepAt(k)
       /\ log[k] = "quit:yes" => k = Len(log)
  /\ Len(frames) >= 1 => (Len(log) >= 2 /\ log[1] = "quit:no" /\ log[2] = "draw")
  /\ (Len(log) >= 1 /\ log[1] = "quit:yes") => frames = << >>

\* The loop has run two full iterations and then been quit.
C10_Witness ==
  /\ pc = "exit_success"
  /\ Len(frames) >= 2
  /\ Len(log) >= 9
  /\ log[Len(log)] = "quit:yes"

(***************************************************************************)
(* A board and a copy of it (board.h:31-32).  The class has one member,    *)
(* state_, a std::vector; a board's grid is the content of the storage its *)
(* vector owns.  The first board's grid is state_, the second's is copy_,  *)
(* and aliased says that both vectors refer to one storage, so that an     *)
(* operation on either board acts on both grids.                           *)
(***************************************************************************)
BoardNames == {"first", "second"}

\* The mutant of CopyConstruct: the copy refers to the original's storage.
CopyConstructShallow(m) == [grid |-> m, aliased |-> TRUE]

\* GameOfLifeBoard(const GameOfLifeBoard &) = default, and the defaulted
\* copy assignment: member-wise, so std::vector's copy, which gives the new
\* board storage of its own holding equal rows.
CopyConstruct(m) == [grid |-> m, aliased |-> FALSE]

InitCopy == pc = "start" /\ InitBase

\* The boards that exist.
BoardsMade == IF pc = "copied" THEN BoardNames
              ELSE IF pc = "idle" THEN {"first"} ELSE {}

GridOf(b) == IF b = "first" THEN state_ ELSE copy_

\* The effect on the two grids of board b's grid becoming m.
Store(b, m) ==
  /\ state_' = IF b = "first" \/ aliased THEN m ELSE state_
  /\ copy_' = IF b = "second" \/ aliased THEN m ELSE copy_

\* GameOfLifeBoard second(first);  or, once both exist, the copy assignment
\* second = first;  or  first = second;
CopyBoard ==
  /\ \E src \in BoardsMade :
       \E dst \in BoardNames \ {src} :
         LET made == CopyConstruct(GridOf(src))
         IN  /\ state_' = IF dst = "first" THEN made.grid ELSE state_
             /\ copy_' = IF dst = "second" THEN made.grid ELSE copy_
             /\ aliased' = made.aliased
             /\ orig' = GridOf(src)
  /\ ticks' = <<0, 0>>
  /\ wrote' = {}
  /\ pc' = "copied"
  /\ UNCHANGED <<earlier, args, tmp, i, j, pre, ret, oob, ops, pattern, file, nread,
                 load_pos, screen>>
  /\ UNCHANGED driverVars

\* GameOfLifeBoard(GameOfLifeBoard &&) = default, and the defaulted move
\* assignment: std::vector's move, which hands the source's storage to the
\* destination and leaves the source an empty vector, a board of 0 rows.
MoveConstruct(m) == [grid |-> m, source |-> << >>]

\* GameOfLifeBoard second(std::move(first));  or, once both exist, the move
\* assignment in either direction.  Both boards are changed by it.
MoveBoard ==
  /\ \E src \in BoardsMade :
       \E dst \in BoardNames \ {src} :
         LET made == MoveConstruct(GridOf(src))
         IN  /\ state_' = IF dst = "first" THEN made.grid ELSE made.source
             /\ copy_' = IF dst = "second" THEN made.grid ELSE made.source
  /\ aliased' = FALSE
  /\ wrote' = BoardNames
  /\ pc' = "copied"
  /\ UNCHANGED <<earlier, args, tmp, i, j, pre, ret, oob, orig, ticks, ops, pattern,
                 file, nread, load_pos, screen>>
  /\ UNCHANGED driverVars

\* b[r][c] = v on one of the boards, for a position in range.
CopyWrite ==
  /\ ops < MaxOps
  /\ \E b \in BoardsMade :
       /\ \E r \in 0..(Rows(GridOf(b)) - 1) :
            \E c \in 0..(Len(GridOf(b)[r + 1]) - 1) :
              \E v \in BOOLEAN :
                Store(b, SetCell(GridOf(b), r, c, v))
       /\ wrote' = IF pc = "copied" THEN wrote \cup {b} ELSE wrote
  /\ ops' = ops + 1
  /\ UNCHANGED <<earlier, pc, args, tmp, i, j, pre, ret, oob, aliased, orig, ticks,
                 pattern, file, nread, load_pos, screen>>
  /\ UNCHANGED driverVars

\* b.Tick() on one of the boards.
CopyTick ==
  /\ ops < MaxOps
  /\ \E b \in BoardsMade :
       /\ Store(b, TickResult(GridOf(b)))
       /\ ticks' = IF pc # "copied" THEN ticks
                   ELSE IF b = "first" THEN <<ticks[1] + 1, ticks[2]>>
                   ELSE <<ticks[1], ticks[2] + 1>>
  /\ ops' = ops + 1
  /\ UNCHANGED <<earlier, pc, args, tmp, i, j, pre, ret, oob, aliased, orig, wrote,
                 pattern, file, nread, load_pos, screen>>
  /\ UNCHANGED driverVars

NextCopy ==
  \/ Construct
  \/ CopyBoard
  \/ MoveBoard
  \/ CopyWrite
  \/ CopyTick

SpecCopy == InitCopy /\ [][NextCopy]_vars

(***************************************************************************)
(* C11.  A copy is independent of the board it was copied from: while no   *)
(* Tick() and no cell write has been made on the original since the copy,  *)
(* the original's grid (cells and dimensions) is the grid that was copied, *)
(* whatever has been done to the copy; and the same with the two boards    *)
(* exchanged.                                                              *)
(***************************************************************************)
C11_CopyIndependent ==
  pc = "copied" =>
    /\ (ticks[1] = 0 /\ "first" \notin wrote) => state_ = orig
    /\ (ticks[2] = 0 /\ "second" \notin wrote) => copy_ = orig

\* The copy of a board with a live cell has been written and ticked, the
\* original not touched, and the two grids differ.
C11_Witness ==
  /\ pc = "copied"
  /\ ticks[1] = 0
  /\ "first" \notin wrote
  /\ ticks[2] >= 1
  /\ "second" \in wrote
  /\ DrawBoard(orig) # {}
  /\ copy_ # state_

(***************************************************************************)
(* A board set up with a pattern and ticked: construction, the writes      *)
(* board[r][c] = true for the pattern's cells, then Tick() calls.          *)
(***************************************************************************)
PatternNames == {"empty", "blinker", "block"}

\* The live cells of a pattern anchored at (r, c): nothing; the horizontal
\* line centred at (r, c); the 2x2 block whose top left cell is (r, c).
PatternCells(name, r, c) ==
  CASE name = "blinker" -> { <<r, c - 1>>, <<r, c>>, <<r, c + 1>> }
    [] name = "block" -> { <<r, c>>, <<r, c + 1>>, <<r + 1, c>>, <<r + 1, c + 1>> }
    [] OTHER -> {}

\* m after board[r][c] = true for every (r, c) of cells, all in range.
WithCells(m, cells) ==
  [r \in 1..Len(m) |->
    [c \in 1..Len(m[r]) |-> m[r][c] \/ <<r - 1, c - 1>> \in cells]]

InitPattern == pc = "start" /\ InitBase

\* GameOfLifeBoard board(h, w);
PatternConstruct ==
  /\ pc = "start"
  /\ \E h \in 0..MaxSide, w \in 0..MaxSide :
       \E o \in GameOfLifeBoard(ToSizeT(h), ToSizeT(w)) :
         /\ args' = <<h, w>>
         /\ state_' = o.board
         /\ pc' = AfterCtor(o.result, "blank")
  /\ UNCHANGED <<tmp, i, j, pre, ret, oob, screen>>
  /\ UNCHANGED driverVars
  /\ UNCHANGED otherVars

\* The writes that set a pattern up, at an anchor where all its cells are
\* cells of the board.
PatternSeed ==
  /\ pc = "blank"
  /\ \E name \in PatternNames, r \in 0..MaxSide, c \in 0..MaxSide :
       /\ name = "empty" => (r = 0 /\ c = 0)
       /\ \A cell \in PatternCells(name, r, c) : InGrid(state_, cell[1], cell[2])
       /\ state_' = WithCells(state_, PatternCells(name, r, c))
       /\ pattern' = <<name, r, c>>
  /\ pc' = "run"
  /\ UNCHANGED <<earlier, args, tmp, i, j, pre, ret, oob, screen, copy_, aliased, orig,
                 ticks, wrote, ops, file, nread, load_pos>>
  /\ UNCHANGED driverVars

\* board.Tick();
PatternTick ==
  /\ pc = "run"
  /\ gen < MaxTicks
  /\ state_' = TickResult(state_)
  /\ gen' = gen + 1
  /\ UNCHANGED <<pc, args, tmp, i, j, pre, ret, oob, screen, dim, init_state,
                 seed, written, frames, log>>
  /\ UNCHANGED otherVars

NextPattern ==
  \/ PatternConstruct
  \/ PatternSeed
  \/ PatternTick

SpecPattern == InitPattern /\ [][NextPattern]_vars

\* The live cells of a grid.
LiveCells(m) ==
  { cell \in (0..(Len(m) - 1)) \X (0..(Cols(m) - 1)) : m[cell[1] + 1][cell[2] + 1] }

\* The cell (r, c) is at least 1 away from every edge of the board.
Interior(r, c) ==
  /\ r >= 1 /\ r <= args[1] - 2
  /\ c >= 1 /\ c <= args[2] - 2

(***************************************************************************)
(* C13.  A horizontal blinker centred at a cell (r, c) that is at least 1  *)
(* away from every edge, alone on the board, is after one Tick() exactly   *)
(* the vertical line (r-1, c), (r, c), (r+1, c), and after two exactly the *)
(* horizontal line again: after an odd number of Ticks the vertical line,  *)
(* after an even number the horizontal one, on a grid of the same          *)
(* dimensions.                                                             *)
(***************************************************************************)
C13_BlinkerPeriodTwo ==
  (pc = "run" /\ pattern[1] = "blinker" /\ Interior(pattern[2], pattern[3])) =>
    LET r == pattern[2]
        c == pattern[3]
    IN  /\ HasShape(state_, args[1], args[2])
        /\ LiveCells(state_) =
             IF gen % 2 = 0 THEN { <<r, c - 1>>, <<r, c>>, <<r, c + 1>> }
                            ELSE { <<r - 1, c>>, <<r, c>>, <<r + 1, c>> }

\* A blinker away from the edges has been ticked twice.
C13_Witness ==
  /\ pc = "run"
  /\ pattern[1] = "blinker"
  /\ Interior(pattern[2], pattern[3])
  /\ gen = 2
  /\ Cardinality(LiveCells(state_)) = 3

(***************************************************************************)
(* C14.  A 2x2 block alone on the board is a still life wherever it fits,  *)
(* against an edge and in a corner as well: after any number of Tick()     *)
(* calls exactly the same four cells are alive, on a grid of the same      *)
(* dimensions.                                                             *)
(***************************************************************************)
C14_BlockStillLife ==
  (pc = "run" /\ pattern[1] = "block") =>
    /\ HasShape(state_, args[1], args[2])
    /\ LiveCells(state_) = PatternCells("block", pattern[2], pattern[3])

\* A block in the bottom right corner of a board larger than the block has
\* been ticked MaxTicks times.
C14_Witness ==
  /\ pc = "run"
  /\ pattern = <<"block", args[1] - 2, args[2] - 2>>
  /\ args[1] > 2
  /\ args[2] > 2
  /\ gen = MaxTicks
  /\ Cardinality(LiveCells(state_)) = 4

(***************************************************************************)
(* C15.  The all-dead board is a fixed point of Tick() for every board     *)
(* size, sizes with 0 rows or 0 columns included: after any number of      *)
(* Tick() calls the grid has the constructed dimensions and no live cell.  *)
(***************************************************************************)
C15_AllDeadFixedPoint ==
  (pc = "run" /\ pattern[1] = "empty") =>
    /\ HasShape(state_, args[1], args[2])
    /\ LiveCells(state_) = {}

\* An all-dead board of the largest size has been ticked MaxTicks times.
C15_Witness ==
  /\ pc = "run"
  /\ pattern[1] = "empty"
  /\ args = <<MaxSide, MaxSide>>
  /\ gen = MaxTicks
  /\ LiveCells(state_) = {}

(***************************************************************************)
(* C16.  Rendering is read-only: the render pass of the draw loop (Clear,  *)
(* DrawBoard, DrawInstructions) leaves the board's grid, cells and         *)
(* dimensions, as it was, and inside the draw loop the only step that      *)
(* changes the grid is the Tick() call.                                    *)
(***************************************************************************)
C16_RenderReadOnly ==
  [][ /\ pc = "draw" => state_' = state_
      /\ (InLoop /\ state_' # state_) => (pc = "tick" /\ state_' = TickResult(state_))
    ]_vars

\* A render pass of a board with live cells has just run: the frame drawn
\* last shows the cells the board still has.
C16_Witness ==
  /\ pc = "tick"
  /\ Len(frames) >= 1
  /\ frames[Len(frames)][2] = DrawBoard(state_)
  /\ DrawBoard(state_) # {}

(***************************************************************************)
(* C17.  Immediately after the construction Board(rows, cols) the grid has *)
(* rows x cols cells and every one is dead; from then until the first      *)
(* Tick() the live cells are exactly the positions seeding has written.    *)
(***************************************************************************)
C17_DeadUntilSeeded ==
  /\ pc = "load" =>
       /\ HasShape(state_, args[1], args[2])
       /\ DrawBoard(state_) = {}
       /\ \A r \in 1..Len(state_) : \A c \in 1..Len(state_[r]) : ~state_[r][c]
  /\ ((pc = "seed" \/ InLoop) /\ gen = 0) =>
       /\ state_ = SeededGrid
       /\ DrawBoard(state_)
            = { <<Offset(written[k].y), Offset(written[k].x)>> : k \in 1..Len(written) }

\* The draw loop is about to make its first Tick() on a board that seeding
\* left with live and with dead cells.
C17_Witness ==
  /\ pc = "tick"
  /\ gen = 0
  /\ Len(written) >= 1
  /\ DrawBoard(state_) # {}
  /\ DrawBoard(state_) # Grid(args[1], args[2])

(***************************************************************************)
(* C18.  On every path of main that exits the process after InitScreen()   *)
(* has run, TerminateScreen() has been called before the exit, the error   *)
(* paths (construction failure, unreadable init-state file, seed position  *)
(* out of range) included: whenever the process has exited, the terminal   *)
(* has been restored.                                                      *)
(***************************************************************************)
C18_ScreenRestoredBeforeExit ==
  pc \in {"exit_success", "exit_failure"} => screen = "restored"

(***************************************************************************)
(* LoadInitState (game_of_life.cpp:39-53).  A line is a sequence of        *)
(* characters; std::sscanf(line.c_str(), "(%zu, %zu)", &pos.y, &pos.x)     *)
(* matches the format directive by directive and stops at the first that   *)
(* fails, leaving the fields not yet assigned as they were.                *)
(***************************************************************************)
Digits == <<"0", "1", "2", "3", "4", "5", "6", "7", "8", "9">>

IsDigit(ch) == \E d \in 1..Len(Digits) : Digits[d] = ch

DigitValue(ch) == (CHOOSE d \in 1..Len(Digits) : Digits[d] = ch) - 1

\* isspace in the C locale: space, \t, \n, \v, \f, \r.
IsSpace(ch) == ch \in {" ", "\t", "\n", "", "\f", "\r"}

\* A literal character of the format: the next input character must be it.
MatchChar(line, k, ch) == k <= Len(line) /\ line[k] = ch

\* White space in the format, and before a conversion: any amount is skipped.
RECURSIVE SkipSpaces(_, _)
SkipSpaces(line, k) ==
  IF k <= Len(line) /\ IsSpace(line[k]) THEN SkipSpaces(line, k + 1) ELSE k

\* The position after the digits that start at k.
RECURSIVE DigitRunEnd(_, _)
DigitRunEnd(line, k) ==
  IF k <= Len(line) /\ IsDigit(line[k]) THEN DigitRunEnd(line, k + 1) ELSE k

\* The first position from k on, before e, that does not hold a "0".
RECURSIVE SkipZeros(_, _, _)
SkipZeros(line, k, e) ==
  IF k < e /\ line[k] = "0" THEN SkipZeros(line, k + 1, e) ELSE k

\* The number a sequence of digits writes, from value on.
RECURSIVE DigitsValue(_, _, _)
DigitsValue(digits, k, value) ==
  IF k > Len(digits) THEN value
  ELSE DigitsValue(digits, k + 1, value * 10 + DigitValue(digits[k]))

\* The digits of 2^64 - 1, the largest std::size_t.
MaxSizeTDigits ==
  <<"1", "8", "4", "4", "6", "7", "4", "4", "0", "7",
    "3", "7", "0", "9", "5", "5", "1", "6", "1", "5">>

\* 2^64 - 1 as a size_t.
MaxSizeT == ToSizeT(0 - 1)

\* Whether a is a larger number than b, for digit sequences of one length.
RECURSIVE DigitsAbove(_, _, _)
DigitsAbove(a, b, k) ==
  IF k > Len(a) THEN FALSE
  ELSE IF a[k] # b[k] THEN DigitValue(a[k]) > DigitValue(b[k])
  ELSE DigitsAbove(a, b, k + 1)

\* Whether the number written by digits (no leading zero) is above 2^64 - 1.
Overflows(digits) ==
  \/ Len(digits) > Len(MaxSizeTDigits)
  \/ Len(digits) = Len(MaxSizeTDigits) /\ DigitsAbove(digits, MaxSizeTDigits, 1)

\* The size_t the conversion stores for a sign and digits: 2^64 - 1 when the
\* number is too large, with or without a minus sign; otherwise the number,
\* negated in size_t after a minus sign.  The number itself is formed in the
\* integers of the model, which hold it only below 2^31.
Converted(negative, digits) ==
  IF Overflows(digits) THEN MaxSizeT
  ELSE IF digits = MaxSizeTDigits THEN (IF negative THEN ToSizeT(1) ELSE MaxSizeT)
  ELSE LET n == DigitsValue(digits, 1, 0)
       IN  ToSizeT(IF negative THEN 0 - n ELSE n)

\* %zu from position k: white space, an optional sign, at least one digit.
ScanSizeT(line, k) ==
  LET s == SkipSpaces(line, k)
      signed == s <= Len(line) /\ line[s] \in {"+", "-"}
      d == IF signed THEN s + 1 ELSE s
      e == DigitRunEnd(line, d)
  IN  IF e > d
        THEN [ok |-> TRUE,
              value |-> Converted(signed /\ line[s] = "-",
                                  SubSeq(line, SkipZeros(line, d, e), e - 1)),
              next |-> e]
        ELSE [ok |-> FALSE, value |-> ToSizeT(0), next |-> k]

\* p after std::sscanf(line, "(%zu, %zu)", &p.y, &p.x).
Sscanf(line, p) ==
  IF ~MatchChar(line, 1, "(") THEN p
  ELSE LET y == ScanSizeT(line, 2)
       IN  IF ~y.ok THEN p
           ELSE LET py == [p EXCEPT !.y = y.value]
                IN  IF ~MatchChar(line, y.next, ",") THEN py
                    ELSE LET x == ScanSizeT(line, SkipSpaces(line, y.next + 1))
                         IN  IF ~x.ok THEN py ELSE [py EXCEPT !.x = x.value]

\* The decimal numeral of n.
RECURSIVE Numeral(_)
Numeral(n) ==
  IF n < 10 THEN <<Digits[n + 1]>>
  ELSE Append(Numeral(n \div 10), Digits[(n % 10) + 1])

\* The lines considered.  Each is its text together with what the text
\* gives for each coordinate: y, x are the set holding the coordinate's
\* value, or the empty set when the line has no value for it that sscanf
\* gets to (a field after the first one that fails is not looked at).
WellFormedLine(y, x) ==
  [text |-> <<"(">> \o Numeral(y) \o <<",", " ">> \o Numeral(x) \o <<")">>,
   y |-> {ToSizeT(y)}, x |-> {ToSizeT(x)}]

WellFormedLines == { WellFormedLine(y, x) : y \in 0..MaxCoord, x \in 0..MaxCoord }

OtherLines ==
  { [text |-> << >>, y |-> {}, x |-> {}],
    [text |-> <<"#">>, y |-> {}, x |-> {}],
    [text |-> <<"(">>, y |-> {}, x |-> {}],
    [text |-> <<"1", ",", " ", "2">>, y |-> {}, x |-> {}],
    [text |-> <<" ", "(", "1", ",", " ", "2", ")">>, y |-> {}, x |-> {}],
    [text |-> <<"(", "a", ",", " ", "1", ")">>, y |-> {}, x |-> {}],
    [text |-> <<"(", "-", ",", " ", "1", ")">>, y |-> {}, x |-> {}],
    [text |-> <<"(", "-", " ", "1", ",", " ", "1", ")">>, y |-> {}, x |-> {}],
    [text |-> <<"(", "2">>, y |-> {ToSizeT(2)}, x |-> {}],
    [text |-> <<"(", "2", ",">>, y |-> {ToSizeT(2)}, x |-> {}],
    [text |-> <<"(", "2", ",", " ", "a", ")">>, y |-> {ToSizeT(2)}, x |-> {}],
    [text |-> <<"(", "2", " ", "1", ")">>, y |-> {ToSizeT(2)}, x |-> {}],
    [text |-> <<"(", "2", " ", ",", " ", "1", ")">>, y |-> {ToSizeT(2)}, x |-> {}],
    [text |-> <<"(", "1", ",", "2", ")">>, y |-> {ToSizeT(1)}, x |-> {ToSizeT(2)}],
    [text |-> <<"(", " ", "1", ",", "\t", " ", "2", ")">>,
     y |-> {ToSizeT(1)}, x |-> {ToSizeT(2)}],
    [text |-> <<"(", "", "1", ",", "\f", "2", ")">>,
     y |-> {ToSizeT(1)}, x |-> {ToSizeT(2)}],
    [text |-> <<"(", "1", ",", "\r", "2", ")">>,
     y |-> {ToSizeT(1)}, x |-> {ToSizeT(2)}],
    [text |-> <<"(", "1", ",", " ", "2", ")", "\r">>,
     y |-> {ToSizeT(1)}, x |-> {ToSizeT(2)}],
    [text |-> <<"(", "1", ",", " ", "2">>, y |-> {ToSizeT(1)}, x |-> {ToSizeT(2)}],
    [text |-> <<"(", "1", ",", " ", "2", ")", "#">>,
     y |-> {ToSizeT(1)}, x |-> {ToSizeT(2)}],
    [text |-> <<"(", "+", "1", ",", " ", "0", ")">>,
     y |-> {ToSizeT(1)}, x |-> {ToSizeT(0)}],
    [text |-> <<"(", "1", "0", ",", " ", "0", "2", ")">>,
     y |-> {ToSizeT(10)}, x |-> {ToSizeT(2)}],
    [text |-> <<"(", "-", "1", ",", " ", "0", ")">>,
     y |-> {MaxSizeT}, x |-> {ToSizeT(0)}],
    [text |-> <<"(", "1", ",", " ", "-", "2", ")">>,
     y |-> {ToSizeT(1)}, x |-> {ToSizeT(0 - 2)}],
    [text |-> <<"(", "-", "0", ",", " ", "1", ")">>,
     y |-> {ToSizeT(0)}, x |-> {ToSizeT(1)}],
    [text |-> <<"(">> \o MaxSizeTDigits \o <<",", " ", "1", ")">>,
     y |-> {MaxSizeT}, x |-> {ToSizeT(1)}],
    [text |-> <<"(", "-">> \o MaxSizeTDigits \o <<",", " ", "1", ")">>,
     y |-> {ToSizeT(1)}, x |-> {ToSizeT(1)}],
    [text |-> <<"(">> \o [k \in 1..Len(MaxSizeTDigits) |-> "9"] \o <<",", " ", "0", ")">>,
     y |-> {MaxSizeT}, x |-> {ToSizeT(0)}],
    [text |-> <<"(", "-">> \o [k \in 1..Len(MaxSizeTDigits) |-> "9"] \o <<",", " ", "0", ")">>,
     y |-> {MaxSizeT}, x |-> {ToSizeT(0)}] }

Lines == WellFormedLines \cup OtherLines

Files == SeqsUpTo(Lines, MaxLines)

\* Position2D pos;  with the member initialisers x = 0, y = 0 (lines 17-20).
DefaultPosition == [x |-> ToSizeT(0), y |-> ToSizeT(0)]

InitLoad == pc = "open" /\ InitBase

\* Lines 40-47: the file cannot be opened and std::invalid_argument is
\* thrown, or the locals line, pos and init_state are made.
LoadOpen ==
  /\ pc = "open"
  /\ \/ /\ pc' = "thrown"
        /\ UNCHANGED <<file, load_pos>>
     \/ /\ file' \in Files
        /\ load_pos' = DefaultPosition
        /\ pc' = "getline"
  /\ UNCHANGED <<earlier, args, ret, oob, screen, copy_, aliased, orig, ticks, wrote,
                 ops, pattern, nread>>
  /\ UNCHANGED boardVars
  /\ UNCHANGED driverVars

\* The mutant of LoadLine: pos declared inside the loop, a fresh Position2D
\* for every line.
LoadLineFreshPos ==
  /\ pc = "getline"
  /\ nread < Len(file)
  /\ load_pos' = Sscanf(file[nread + 1].text, DefaultPosition)
  /\ init_state' = Append(init_state, load_pos')
  /\ nread' = nread + 1
  /\ UNCHANGED <<earlier, pc, args, ret, oob, screen, copy_, aliased, orig, ticks,
                 wrote, ops, pattern, file, dim, seed, written, frames, gen,
                 log>>
  /\ UNCHANGED boardVars

\* Lines 48-51: std::getline returns a line; sscanf; init_state.push_back(pos).
LoadLine ==
  /\ pc = "getline"
  /\ nread < Len(file)
  /\ load_pos' = Sscanf(file[nread + 1].text, load_pos)
  /\ init_state' = Append(init_state, load_pos')
  /\ nread' = nread + 1
  /\ UNCHANGED <<earlier, pc, args, ret, oob, screen, copy_, aliased, orig, ticks,
                 wrote, ops, pattern, file, dim, seed, written, frames, gen,
                 log>>
  /\ UNCHANGED boardVars

\* Lines 48, 52: std::getline finds no further line; return init_state.
LoadReturn ==
  /\ pc = "getline"
  /\ nread >= Len(file)
  /\ pc' = "loaded"
  /\ UNCHANGED <<args, ret, oob, screen>>
  /\ UNCHANGED boardVars
  /\ UNCHANGED driverVars
  /\ UNCHANGED otherVars

NextLoad ==
  \/ LoadOpen
  \/ LoadLine
  \/ LoadReturn

SpecLoad == InitLoad /\ [][NextLoad]_vars

\* The value a coordinate of the k-th position must have: the value the
\* k-th line gives, or else the value of the position before (0 for k = 1).
Expected(given, k, coordinate) ==
  IF given # {} THEN CHOOSE v \in given : TRUE
  ELSE IF k = 1 THEN ToSizeT(0)
  ELSE coordinate[k - 1]

\* Some line of the file gives both y and x of the position p.
OnSomeLine(p) ==
  \E l \in 1..Len(file) : file[l].y = {p.y} /\ file[l].x = {p.x}

(***************************************************************************)
(* C19.  LoadInitState appends exactly one position per line read, in file *)
(* order: the k-th position belongs to the k-th line.  A coordinate the    *)
(* line gives is that value; a coordinate that cannot be parsed from the   *)
(* line is the value left over from the line before, 0 for the first line: *)
(* the line is neither skipped nor rejected.                               *)
(***************************************************************************)
C19_OnePositionPerLine ==
  pc \in {"getline", "loaded"} =>
    /\ Len(init_state) = nread
    /\ pc = "loaded" => nread = Len(file)
    /\ \A k \in 1..Len(init_state) :
         /\ init_state[k].y
              = Expected(file[k].y, k, [n \in 1..Len(init_state) |-> init_state[n].y])
         /\ init_state[k].x
              = Expected(file[k].x, k, [n \in 1..Len(init_state) |-> init_state[n].x])

\* A file of MaxLines lines has been loaded, its last line gives y but no
\* x, and the list returned holds a position that is on no line of the file.
C19_Witness ==
  /\ pc = "loaded"
  /\ Len(file) = MaxLines
  /\ file[MaxLines].y # {}
  /\ file[MaxLines].x = {}
  /\ Len(init_state) = MaxLines
  /\ ~OnSomeLine(init_state[MaxLines])
  /\ init_state[MaxLines].x # ToSizeT(0)

(***************************************************************************)
(* One board ticked more than once: construction, a bounded number of      *)
(* in-range writes, Tick() followed loop test by loop test, and the record *)
(* of one completed Tick() to compare later ones with.                     *)
(***************************************************************************)
\* board[r][c] = v, for a position in range.
TwiceWrite ==
  /\ pc = "idle"
  /\ ops < MaxWrites
  /\ \E r \in 0..(Rows(state_) - 1) :
       \E c \in 0..(Len(state_[r + 1]) - 1) :
         \E v \in BOOLEAN :
           state_' = SetCell(state_, r, c, v)
  /\ pre' = << >>
  /\ ret' = NoRet
  /\ ops' = ops + 1
  /\ UNCHANGED <<pc, args, tmp, i, j, oob, screen, copy_, aliased, orig, ticks,
                 wrote, pattern, file, nread, load_pos, earlier>>
  /\ UNCHANGED driverVars

\* Tick() has just returned: its grids before and after are recorded.
TwiceRecord ==
  /\ pc = "idle"
  /\ ret = <<"Tick", 0>>
  /\ earlier = << >>
  /\ earlier' = <<pre, state_, ops>>
  /\ UNCHANGED <<pc, args, ret, oob, screen, copy_, aliased, orig, ticks,
                 wrote, ops, pattern, file, nread, load_pos>>
  /\ UNCHANGED boardVars
  /\ UNCHANGED driverVars

NextTwice ==
  \/ Construct
  \/ TwiceWrite
  \/ TickCopy
  \/ TickOuterLoop
  \/ TickInnerLoop
  \/ TickMove
  \/ TwiceRecord

SpecTwice == Init /\ [][NextTwice]_vars

  /\ state_ # pre

====
